---------------------------- MODULE Spec2Model ----------------------------
(***************************************************************************)
(* TrackMaster: the mastering engine (src/src/trackmaster/mastering.py)    *)
(* and the /master and /cleanup handlers (src/src/trackmaster/api.py).     *)
(*                                                                         *)
(* Numbers.  A float is a record: a finite value [k |-> "fin", v |-> n]    *)
(* standing for n / Scale, an infinity [k |-> "inf", v |-> +1 or -1], or   *)
(* NaN.  Finite arithmetic is fixed point, rounded to the nearest unit;    *)
(* the IEEE rules for the non-finite values (0 * inf = NaN, inf - inf =    *)
(* NaN, every comparison with NaN false, ...) are kept, because they       *)
(* decide what the engine does with silence and with bad samples.          *)
(* Overflow of finite values is not modelled.  Of underflow one case is:   *)
(* Faint is a sample that is not zero but whose square is (1e-200 in       *)
(* double precision); elsewhere it counts as the value 0 it is next to.    *)
(* Decibel quantities (LUFS, gains) are fixed point in the same unit.      *)
(***************************************************************************)
EXTENDS Integers, Sequences, FiniteSets, TLC

\* One unit of a finite value is 1 / Scale (three decimal places).
Scale == 10 * 10 * 10

\* ------------------------------------------------------------------------
\* Floating-point values and their arithmetic
\* ------------------------------------------------------------------------

Fin(n) == [k |-> "fin", v |-> n]
Inf(s) == [k |-> "inf", v |-> s]
NaN == [k |-> "nan", v |-> 0]
Zero == Fin(0)
\* a positive sample too small for its square to be representable
Faint == [k |-> "fin", v |-> 0, faint |-> TRUE]

IsFin(x) == x.k = "fin"
IsInf(x) == x.k = "inf"
IsNaN(x) == x.k = "nan"

AbsInt(n) == IF n < 0 THEN -n ELSE n
SgnInt(n) == IF n > 0 THEN 1 ELSE IF n < 0 THEN -1 ELSE 0
\* n / d rounded to the nearest integer, halves away from zero (d > 0)
RoundDiv(n, d) == SgnInt(n) * ((2 * AbsInt(n) + d) \div (2 * d))

\* the sign of a number that is not NaN
Sgn(x) == IF x = Faint THEN 1 ELSE SgnInt(x.v)

FNeg(x) == IF IsNaN(x) THEN NaN ELSE [x EXCEPT !.v = -x.v]
FAbs(x) == IF IsNaN(x) THEN NaN ELSE [x EXCEPT !.v = AbsInt(x.v)]
\* np.sign: -1, 0 or +1, NaN for NaN
FSign(x) == IF IsNaN(x) THEN NaN ELSE Fin(Scale * SgnInt(x.v))

FAdd(x, y) ==
    IF IsNaN(x) \/ IsNaN(y) THEN NaN
    ELSE IF IsInf(x) /\ IsInf(y) THEN (IF x.v = y.v THEN x ELSE NaN)
    ELSE IF IsInf(x) THEN x
    ELSE IF IsInf(y) THEN y
    ELSE Fin(x.v + y.v)

FSub(x, y) == FAdd(x, FNeg(y))

FMul(x, y) ==
    IF IsNaN(x) \/ IsNaN(y) THEN NaN
    ELSE IF IsInf(x) \/ IsInf(y)
         THEN (IF x = Zero \/ y = Zero THEN NaN ELSE Inf(Sgn(x) * Sgn(y)))
    ELSE Fin(RoundDiv(x.v * y.v, Scale))

FDiv(x, y) ==
    IF IsNaN(x) \/ IsNaN(y) THEN NaN
    ELSE IF IsInf(x) THEN (IF IsInf(y) THEN NaN
                           ELSE Inf(x.v * (IF y.v < 0 THEN -1 ELSE 1)))
    ELSE IF IsInf(y) THEN Zero
    ELSE IF y.v = 0 THEN (IF x.v = 0 THEN NaN ELSE Inf(SgnInt(x.v)))
    ELSE Fin(SgnInt(y.v) * RoundDiv(x.v * Scale, AbsInt(y.v)))

\* x > y and x <= y; both false when either side is NaN
FGt(x, y) ==
    /\ ~IsNaN(x) /\ ~IsNaN(y)
    /\ IF IsInf(x) THEN x.v = 1 /\ ~(IsInf(y) /\ y.v = 1)
       ELSE IF IsInf(y) THEN y.v = -1
       ELSE x.v > y.v
FLt(x, y) == FGt(y, x)
FLe(x, y) == ~IsNaN(x) /\ ~IsNaN(y) /\ ~FGt(x, y)

\* Python's built-in max(a, b) and min(a, b): the first argument is kept
\* unless the second compares strictly greater (smaller).
PyMax(a, b) == IF FGt(b, a) THEN b ELSE a
PyMin(a, b) == IF FLt(b, a) THEN b ELSE a

\* ------------------------------------------------------------------------
\* Buffers (one channel: a sequence of floats) and numpy reductions
\* ------------------------------------------------------------------------

AllFinite(a) == \A i \in 1..Len(a) : IsFin(a[i])
AllZero(a) == \A i \in 1..Len(a) : a[i] = Zero
HasNaN(a) == \E i \in 1..Len(a) : IsNaN(a[i])
HasInf(a) == \E i \in 1..Len(a) : IsInf(a[i])

\* element-wise helpers (numpy broadcasting of a scalar over an array)
VScale(a, g) == [i \in 1..Len(a) |-> FMul(a[i], g)]
VDiv(a, g) == [i \in 1..Len(a) |-> FDiv(a[i], g)]
VAdd(a, b) == [i \in 1..Len(a) |-> FAdd(a[i], b[i])]
VAbs(a) == [i \in 1..Len(a) |-> FAbs(a[i])]

\* the largest finite magnitude of a buffer, in units
MaxAbsInt(a) ==
    LET S == {AbsInt(a[i].v) : i \in {j \in 1..Len(a) : IsFin(a[j])}} \cup {0}
    IN  CHOOSE m \in S : \A n \in S : n <= m

\* np.max(np.abs(a)) of a non-empty buffer: NaN if any sample is NaN
np_max_abs(a) ==
    IF HasNaN(a) THEN NaN
    ELSE IF HasInf(a) THEN Inf(1)
    ELSE Fin(MaxAbsInt(a))

RECURSIVE SumSq(_)
SumSq(a) == IF a = <<>> THEN 0 ELSE Head(a).v * Head(a).v + SumSq(Tail(a))

\* np.sqrt(np.mean(a ** 2)): NaN for an empty buffer (mean of nothing) and
\* for a buffer with a NaN, inf for one with an infinity; otherwise the root
\* of the mean square, rounded up to the next unit so that it is zero
\* exactly when every square is zero (every sample zero or faint).
rms_of(a) ==
    IF Len(a) = 0 \/ HasNaN(a) THEN NaN
    ELSE IF HasInf(a) THEN Inf(1)
    ELSE LET s == SumSq(a)
             n == Len(a)
         IN  Fin(CHOOSE r \in 0..MaxAbsInt(a) :
                    /\ r * r * n >= s
                    /\ (r = 0 \/ (r - 1) * (r - 1) * n < s))

\* ------------------------------------------------------------------------
\* Decibels: 20 * log10(x) and 10 ** (d / 20)
\* ------------------------------------------------------------------------

\* 10 ** (r / 20) for r = 0..19, in units
Pow10Table ==
    <<1000, 1122, 1259, 1413, 1585, 1778, 1995, 2239, 2512, 2818,
      3162, 3548, 3981, 4467, 5012, 5623, 6310, 7079, 7943, 8913>>

RECURSIVE TenTo(_)
TenTo(q) == IF q = 0 THEN 1 ELSE 10 * TenTo(q - 1)

\* 10 ** (d / 20) in units, d a whole number of dB
PowDb(d) ==
    LET q == d \div 20
        r == d % 20
    IN  IF q >= 0 THEN Pow10Table[r + 1] * TenTo(q)
        ELSE RoundDiv(Pow10Table[r + 1], TenTo(-q))

\* The range of whole dB the format resolves: below it a linear value
\* rounds to 0 units, above it the products of the model would leave the
\* range kept finite.
DbLo == 0 - 67
DbHi == 0 + 60

\* 10 ** (x / 20), x in dB (units): linear interpolation between whole dB
pow10_db(x) ==
    IF IsNaN(x) THEN NaN
    ELSE IF IsInf(x) THEN (IF x.v = 1 THEN Inf(1) ELSE Zero)
    ELSE LET d == x.v \div Scale
             f == x.v % Scale
         IN  IF d < DbLo THEN Zero
             ELSE IF d >= DbHi THEN Inf(1)
             ELSE Fin(PowDb(d) + RoundDiv((PowDb(d + 1) - PowDb(d)) * f, Scale))

\* 20 * np.log10(x) in dB (units): -inf at 0, NaN below 0
log10_db(x) ==
    IF IsNaN(x) THEN NaN
    ELSE IF IsInf(x) THEN (IF x.v = 1 THEN Inf(1) ELSE NaN)
    ELSE IF x.v < 0 THEN NaN
    ELSE IF x.v = 0 THEN Inf(-1)
    ELSE IF x.v >= PowDb(DbHi) THEN Fin(DbHi * Scale)
    ELSE LET d == CHOOSE e \in DbLo..(DbHi - 1) :
                      PowDb(e) <= x.v /\ PowDb(e + 1) > x.v
         IN  Fin(d * Scale
                 + RoundDiv((x.v - PowDb(d)) * Scale, PowDb(d + 1) - PowDb(d)))

\* ------------------------------------------------------------------------
\* scipy.signal: Butterworth sections and sosfilt, at the engine's rate
\* ------------------------------------------------------------------------

\* signal.butter(2, ..., fs=44100, output='sos'): each section is
\* <<b0, b1, b2, a0, a1, a2>> in units.
sos_hp == << <<997, -1994, 997, 1000, -1994, 994>> >>
sos_hf_standard == << <<177, 354, 177, 1000, -443, 439>>,
                      <<1000, -2000, 1000, 1000, 856, 496>> >>
sos_hf_reference == << <<251, 503, 251, 1000, 813, 419>>,
                       <<1000, -2000, 1000, 1000, -823, 422>> >>
sos_lowpass == << <<177, 354, 177, 1000, -509, 218>> >>
sos_lf_reference == << <<0, 0, 0, 1000, -1966, 968>>,
                       <<1000, -2000, 1000, 1000, -1989, 989>> >>

\* one second-order section, direct form II transposed, state z1, z2
RECURSIVE Biquad(_, _, _, _)
Biquad(sec, a, z1, z2) ==
    IF a = <<>> THEN <<>>
    ELSE LET x == Head(a)
             y == FAdd(FMul(Fin(sec[1]), x), z1)
             n1 == FAdd(FSub(FMul(Fin(sec[2]), x), FMul(Fin(sec[5]), y)), z2)
             n2 == FSub(FMul(Fin(sec[3]), x), FMul(Fin(sec[6]), y))
         IN  <<y>> \o Biquad(sec, Tail(a), n1, n2)

\* signal.sosfilt(sos, a): the sections in cascade, zero initial state
RECURSIVE sosfilt(_, _)
sosfilt(sos, a) ==
    IF sos = <<>> THEN a
    ELSE sosfilt(Tail(sos), Biquad(Head(sos), a, Zero, Zero))

\* ------------------------------------------------------------------------
\* AudioMasteringEngine: the stages
\* ------------------------------------------------------------------------

\* reference_params of a run without a reference
None == [none |-> TRUE]
IsNone(p) == "none" \in DOMAIN p

HF_BOOST_STANDARD == 100
HF_RATIO_HIGH == 1200
HF_RATIO_LOW == 800
HF_GAIN_CAP == 200
LF_RATIO_HIGH == 1200
LF_GAIN_CAP == 150
RATIO_GAIN == 100

\* reference / (current + 1e-10): the epsilon is below one unit, so it
\* only matters when current is 0, where the quotient is 0 for a zero
\* reference and otherwise larger than any ratio the format holds.
energy_ratio(reference, current) ==
    IF IsFin(current) /\ current.v = 0
    THEN (IF IsFin(reference) /\ reference.v = 0 THEN Zero
          ELSE FMul(reference, Inf(1)))
    ELSE FDiv(reference, current)

\* an EQ that low-passes whenever the reference has less high-band energy
high_freq_action_eager(high_freq_ratio) ==
    IF FGt(high_freq_ratio, Fin(HF_RATIO_HIGH)) THEN "boost"
    ELSE IF FLt(high_freq_ratio, Fin(Scale)) THEN "lowpass"
    ELSE "none"

\* lines 215-221: what is done to the high band
high_freq_action(high_freq_ratio) ==
    IF FGt(high_freq_ratio, Fin(HF_RATIO_HIGH)) THEN "boost"
    ELSE IF FLt(high_freq_ratio, Fin(HF_RATIO_LOW)) THEN "lowpass"
    ELSE "none"

\* line 224: what is done to the low band
low_freq_action(low_freq_ratio) ==
    IF FGt(low_freq_ratio, Fin(LF_RATIO_HIGH)) THEN "boost" ELSE "none"

\* min(cap, (ratio - 1.0) * 0.1)
boost_gain(cap, ratio) ==
    PyMin(Fin(cap), FMul(FSub(ratio, Fin(Scale)), Fin(RATIO_GAIN)))

\* the band-passed signal times the gain, added to the signal
boosted(audio, sos, gain) == VAdd(audio, VScale(sosfilt(sos, audio), gain))

\* lines 215-227 with the two actions decided
eq_acted(audio, high_action, hf_gain, low_action, lf_gain) ==
    LET a1 == IF high_action = "boost" THEN boosted(audio, sos_hf_reference, hf_gain)
              ELSE IF high_action = "lowpass" THEN sosfilt(sos_lowpass, audio)
              ELSE audio
    IN  IF low_action = "boost" THEN boosted(a1, sos_lf_reference, lf_gain)
        ELSE a1

\* _apply_reference_eq; current_spectral is what _analyze_spectrum returns
\* for the high-passed signal
apply_reference_eq(audio, reference_params, current_spectral) ==
    LET high_freq_ratio == energy_ratio(reference_params.high_freq_energy,
                                        current_spectral.high_freq_energy)
        low_freq_ratio == energy_ratio(reference_params.low_freq_energy,
                                       current_spectral.low_freq_energy)
    IN  eq_acted(audio,
                 high_freq_action(high_freq_ratio),
                 boost_gain(HF_GAIN_CAP, high_freq_ratio),
                 low_freq_action(low_freq_ratio),
                 boost_gain(LF_GAIN_CAP, low_freq_ratio))

\* the 30 Hz high-pass every run starts with
eq_highpass(audio) == sosfilt(sos_hp, audio)

\* apply_eq(audio, sr, reference_params) at sr = 44100
apply_eq(audio, reference_params, current_spectral) ==
    LET hp == eq_highpass(audio)
    IN  IF ~IsNone(reference_params)
        THEN apply_reference_eq(hp, reference_params, current_spectral)
        ELSE VAdd(hp, VScale(sosfilt(sos_hf_standard, hp), Fin(HF_BOOST_STANDARD)))

COMPRESSION_THRESHOLD == 700
COMPRESSION_RATIO == 3000
THRESHOLD_BASE == 900
THRESHOLD_MIN == 300
THRESHOLD_MAX == 800
DR_DIVISOR == 40000

\* a compressor that keeps the caller's threshold in reference mode
compression_threshold_static(threshold, reference_params) == threshold

\* the threshold and ratio apply_compression works with
compression_threshold(threshold, reference_params) ==
    IF ~IsNone(reference_params)
    THEN PyMax(Fin(THRESHOLD_MIN),
               PyMin(Fin(THRESHOLD_MAX),
                     FSub(Fin(THRESHOLD_BASE),
                          FDiv(reference_params.dynamic_range, Fin(DR_DIVISOR)))))
    ELSE threshold

compression_ratio_used(ratio, reference_params) ==
    IF ~IsNone(reference_params) THEN reference_params.compression_ratio
    ELSE ratio

\* a compressor without the mask: the curve applied to every sample
compress_sample_unmasked(x, threshold, ratio) ==
    FMul(FSign(x), FAdd(threshold, FDiv(FSub(FAbs(x), threshold), ratio)))

\* a compressor that scales the whole sample by 1 / ratio
compress_sample_scaled(x, threshold, ratio) ==
    IF FGt(FAbs(x), threshold) THEN FDiv(x, ratio) ELSE x

\* one sample of apply_compression
compress_sample(x, threshold, ratio) ==
    IF FGt(FAbs(x), threshold)
    THEN FMul(FSign(x), FAdd(threshold, FDiv(FSub(FAbs(x), threshold), ratio)))
    ELSE x

apply_compression(audio, threshold, ratio, reference_params) ==
    LET t == compression_threshold(threshold, reference_params)
        r == compression_ratio_used(ratio, reference_params)
    IN  [i \in 1..Len(audio) |-> compress_sample(audio[i], t, r)]

LIMITER_CEILING == 950

\* a limiter that halves what exceeds the ceiling instead of cutting it
clip_soft_knee(x, lo, hi) ==
    IF IsNaN(x) THEN NaN
    ELSE IF FLt(x, lo) THEN FAdd(lo, FDiv(FSub(x, lo), Fin(2 * Scale)))
    ELSE IF FGt(x, hi) THEN FAdd(hi, FDiv(FSub(x, hi), Fin(2 * Scale)))
    ELSE x

\* np.clip(x, lo, hi) is minimum(maximum(x, lo), hi): NaN stays NaN, and
\* with lo > hi every other sample becomes hi
clip(x, lo, hi) ==
    IF IsNaN(x) THEN NaN
    ELSE LET raised == IF FLt(x, lo) THEN lo ELSE x
         IN  IF FGt(raised, hi) THEN hi ELSE raised

apply_limiter(audio, ceiling) ==
    [i \in 1..Len(audio) |-> clip(audio[i], FNeg(ceiling), ceiling)]

LUFS_OFFSET == 691

\* calculate_lufs: 20 * log10(rms) - 0.691, with no epsilon
calculate_lufs(audio) == FSub(log10_db(rms_of(audio)), Fin(LUFS_OFFSET))

CLIP_GUARD == 950

\* lines 308-309: the instance default stands in for a missing target
target_or_default(target_lufs, self_target_lufs) ==
    IF IsNone(target_lufs) THEN self_target_lufs ELSE target_lufs

\* the gain loudness_normalize multiplies by
normalize_gain(audio, target_lufs) ==
    pow10_db(FSub(target_lufs, calculate_lufs(audio)))

\* loudness_normalize for a non-empty buffer (np.max raises on an empty one)
loudness_normalize(audio, target_lufs, self_target_lufs) ==
    LET target == target_or_default(target_lufs, self_target_lufs)
        normalized == VScale(audio, normalize_gain(audio, target))
        peak == np_max_abs(normalized)
    IN  IF FGt(peak, Fin(CLIP_GUARD))
        THEN VScale(VDiv(normalized, peak), Fin(CLIP_GUARD))
        ELSE normalized

\* ------------------------------------------------------------------------
\* ReferenceAnalyzer
\* ------------------------------------------------------------------------

\* An array is [ndim |-> 1 or 2, rows |-> a sequence of channels]; a 1-D
\* array has one row.
Array1(a) == [ndim |-> 1, rows |-> <<a>>]
Array2(rs) == [ndim |-> 2, rows |-> rs]
NumSamples(arr) == Len(arr.rows[1])
ArrayFinite(arr) == \A r \in 1..Len(arr.rows) : AllFinite(arr.rows[r])

RECURSIVE FSum(_)
FSum(xs) == IF xs = <<>> THEN Zero ELSE FAdd(Head(xs), FSum(Tail(xs)))

\* np.mean(audio, axis=0) of a 2-D array; a 1-D array is used as it is
mono_mix(arr) ==
    IF arr.ndim = 1 THEN arr.rows[1]
    ELSE [i \in 1..NumSamples(arr) |->
            FDiv(FSum([r \in 1..Len(arr.rows) |-> arr.rows[r][i]]),
                 Fin(Scale * Len(arr.rows)))]

\* np.percentile(np.abs(audio), q) of a finite non-empty buffer: linear
\* interpolation between the order statistics (kth(k) is the k-th smallest
\* magnitude)
percentile_abs(audio, q) ==
    LET mags == [i \in 1..Len(audio) |-> AbsInt(audio[i].v)]
        vals == {mags[i] : i \in 1..Len(audio)}
        kth(k) == CHOOSE v \in vals :
                     /\ Cardinality({i \in 1..Len(audio) : mags[i] < v}) < k
                     /\ Cardinality({i \in 1..Len(audio) : mags[i] <= v}) >= k
        pos == q * (Len(audio) - 1)
        lo == pos \div 100 + 1
        hi == IF lo < Len(audio) THEN lo + 1 ELSE lo
    IN  Fin(kth(lo) + RoundDiv((kth(hi) - kth(lo)) * (pos % 100), 100))

LOUD_PERCENTILE == 95
QUIET_PERCENTILE == 10
DR_MIN == 0
DR_MAX == 40000
EPS_DB == 200000

\* 20 * log10((loud + 1e-10) / (quiet + 1e-10)): the epsilon is below one
\* unit and only shows where a level is 0
level_ratio_db(loud, quiet) ==
    IF quiet.v = 0
    THEN (IF loud.v = 0 THEN Zero ELSE FAdd(Fin(EPS_DB), log10_db(loud)))
    ELSE log10_db(FDiv(loud, quiet))

calculate_dynamic_range(audio) ==
    LET loud_level == percentile_abs(audio, LOUD_PERCENTILE)
        quiet_level == percentile_abs(audio, QUIET_PERCENTILE)
        dr == level_ratio_db(loud_level, quiet_level)
    IN  PyMax(Fin(DR_MIN), PyMin(Fin(DR_MAX), dr))

CR_MIN == 1000
CR_MAX == 10000
CR_NUMERATOR == 15000
CR_DEFAULT == 3000

\* an estimate that is not clamped
estimate_compression_ratio_unclamped(audio) ==
    LET peak == np_max_abs(audio)
        rms == rms_of(audio)
    IN  IF FGt(rms, Zero) THEN FDiv(Fin(CR_NUMERATOR), FDiv(peak, rms))
        ELSE Fin(CR_DEFAULT)

estimate_compression_ratio(audio) ==
    LET peak == np_max_abs(audio)
        rms == rms_of(audio)
    IN  IF FGt(rms, Zero)
        THEN PyMax(Fin(CR_MIN),
                   PyMin(Fin(CR_MAX), FDiv(Fin(CR_NUMERATOR), FDiv(peak, rms))))
        ELSE Fin(CR_DEFAULT)

\* 20 * log10(rms + 1e-10) - 0.691 (line 37)
reference_lufs(audio) ==
    LET rms == rms_of(audio)
    IN  FSub(IF IsFin(rms) /\ rms.v = 0 THEN Fin(-EPS_DB) ELSE log10_db(rms),
             Fin(LUFS_OFFSET))

\* What librosa measures of a signal (_analyze_spectrum): the band energies
\* the engine reads.  The short-time Fourier analysis is the library's; its
\* result is an input of the model, zero for a silent signal.
ZeroSpectrum == [high_freq_energy |-> Zero, low_freq_energy |-> Zero]
Spectra ==
    {[high_freq_energy |-> Fin(h), low_freq_energy |-> Fin(l)] :
        h \in {400, 600}, l \in {400, 600}}
spectra_of(audio) == IF AllZero(audio) THEN {ZeroSpectrum} ELSE Spectra

\* librosa and numpy raise on a reference that is empty or not finite
\* everywhere (np.percentile / np.max of nothing, util.valid_audio)
analysis_raises(arr) == NumSamples(arr) = 0 \/ ~ArrayFinite(arr)

\* ReferenceAnalyzer.analyze_reference for a finite non-empty array
analyze_reference(arr, spectral) ==
    LET audio == mono_mix(arr)
    IN  [target_lufs |-> reference_lufs(audio),
         dynamic_range |-> calculate_dynamic_range(audio),
         peak_level |-> np_max_abs(audio),
         high_freq_energy |-> spectral.high_freq_energy,
         low_freq_energy |-> spectral.low_freq_energy,
         compression_ratio |-> estimate_compression_ratio(audio)]

\* ------------------------------------------------------------------------
\* AudioMasteringEngine.master_audio: the pieces of lines 340-368
\* ------------------------------------------------------------------------

SAMPLE_RATE == 44100
DEFAULT_TARGET_LUFS == 0 - 14000

\* librosa.resample(a, orig_sr, target_sr) along the last axis: the library
\* returns ceil(n * target_sr / orig_sr) samples; the model takes for each
\* the input sample at the same time.
resample_row(a, orig_sr, target_sr) ==
    LET n == (Len(a) * target_sr + orig_sr - 1) \div orig_sr
    IN  [i \in 1..n |->
            a[IF ((i - 1) * orig_sr) \div target_sr + 1 > Len(a) THEN Len(a)
              ELSE ((i - 1) * orig_sr) \div target_sr + 1]]

resample(arr, orig_sr, target_sr) ==
    [arr EXCEPT !.rows = [r \in 1..Len(arr.rows) |->
                             resample_row(arr.rows[r], orig_sr, target_sr)]]

\* librosa.resample validates its input (util.valid_audio): a buffer that
\* is not finite everywhere is rejected
resample_raises(arr) == ~ArrayFinite(arr)

\* a run that takes the buffer with the shape it has
normalize_topology_as_given(arr) == arr

\* lines 352-358: at most two channels, and a single row is made 1-D
normalize_topology(arr) ==
    LET two == IF arr.ndim = 2 /\ Len(arr.rows) > 2
               THEN [arr EXCEPT !.rows = SubSeq(arr.rows, 1, 2)]
               ELSE arr
    IN  IF two.ndim = 2 /\ Len(two.rows) = 1 THEN Array1(two.rows[1]) ELSE two

\* a run that takes the engine's target in both modes
effective_target_lufs_engine_only(reference_params, self_target_lufs) ==
    self_target_lufs

\* line 368: the target of the run
effective_target_lufs(reference_params, self_target_lufs) ==
    IF ~IsNone(reference_params) THEN reference_params.target_lufs
    ELSE self_target_lufs

\* ------------------------------------------------------------------------
\* One run of master_audio, a step at a time
\* ------------------------------------------------------------------------

VARIABLES
    in_audio,            \* the caller's buffer
    in_sr,               \* and its sample rate
    in_reference,        \* the caller's reference buffer, or None
    in_reference_sr,
    self_target_lufs,    \* engine.target_lufs
    pc,                  \* where the run is
    audio,               \* master_audio's local audio
    sr,                  \* master_audio's local sr
    reference_params,    \* the profile, or None
    target_lufs,         \* the local target_lufs of line 368
    channel,             \* the channel being processed
    ch_audio,            \* that channel's buffer between stages
    stage,               \* the stage it is due for
    processed_channels,  \* the finished channels of a 2-D run
    result,              \* the array returned, or None
    error,               \* the exception raised, or "none"
    history,             \* the stages run so far, as <<channel, stage>>
    normalize_targets,   \* the target each loudness_normalize call worked with
    refs,                \* the array object each name of the run is bound to
    analyzer_runs        \* the calls of analyze_reference that have returned

engine_vars == <<in_audio, in_sr, in_reference, in_reference_sr,
                 pc, audio, sr, reference_params, target_lufs, channel,
                 ch_audio, stage, processed_channels, result, error, history,
                 normalize_targets, refs, analyzer_runs>>

\* bounds of the inputs
MaxLen == 2
MaxChannels == 3

Samples == {Zero, Fin(300), Fin(-900), NaN, Inf(1)}
RowSamples == {Zero, Fin(-900), NaN}
ReferenceSamples == {Zero, Fin(-900), NaN}
SampleRates == {SAMPLE_RATE, 22050}
TargetChoices == {Fin(DEFAULT_TARGET_LUFS), Fin(-2000)}

\* the buffers of length n that alternate between two samples of S
Patterns(S, n) == {[i \in 1..n |-> IF i % 2 = 1 THEN a ELSE b] : a \in S, b \in S}
Constants(S, n) == {[i \in 1..n |-> a] : a \in S}

InputArrays ==
    UNION {{Array1(a) : a \in Patterns(Samples, n)} : n \in 0..MaxLen}
    \cup UNION {{Array2(rs) : rs \in [1..c -> Constants(RowSamples, n)]} :
                  c \in 1..MaxChannels, n \in 0..MaxLen}

ReferenceArrays ==
    UNION {{Array1(a) : a \in Patterns(ReferenceSamples, n)} : n \in {0, MaxLen}}
    \cup {Array2(<<a, b>>) : a \in Constants({Fin(300)}, MaxLen),
                            b \in Constants({Zero, Fin(-900)}, MaxLen)}

\* Array objects.  Values do not tell a buffer from a copy of it, so the
\* run also keeps, for each of its names, the object the name is bound to
\* (for a view such as audio[:2] or audio[channel], the object it is a view
\* of), and the set of objects that have been written in place.
CallerInput == [kind |-> "caller", n |-> 1]
CallerReference == [kind |-> "caller", n |-> 2]
NoObject == [kind |-> "none", n |-> 0]
New(n) == [kind |-> "new", n |-> n]

InitialRefs ==
    [audio |-> CallerInput, reference |-> NoObject, ch_audio |-> NoObject,
     result |-> NoObject, written |-> {}, next |-> 1]

\* A call's effect on the objects: the object it returns and the objects
\* it writes in place; src is the object it is handed, fresh a new one.
\* librosa.resample builds its result (lines 346, 362)
resample_effect(src, fresh) == [returned |-> fresh, written |-> {}]

\* an apply_eq that filters the buffer it is handed in place
eq_effect_in_place(src, fresh) == [returned |-> src, written |-> {src}]

\* apply_eq: signal.sosfilt and audio + boost each build a new array
eq_effect(src, fresh) == [returned |-> fresh, written |-> {}]

\* apply_compression: np.copy(audio), and the masked assignment into the copy
compression_effect(src, fresh) == [returned |-> fresh, written |-> {fresh}]

\* loudness_normalize: audio * gain_linear, normalized / peak * 0.95
normalize_effect(src, fresh) == [returned |-> fresh, written |-> {}]

\* apply_limiter: np.clip without out=
limiter_effect(src, fresh) == [returned |-> fresh, written |-> {}]

\* np.array(processed_channels) copies the channels into a new array
stack_effect(src, fresh) == [returned |-> fresh, written |-> {}]

\* the name bound to what the call returns, its writes recorded
Bound(r, name, effect) ==
    [r EXCEPT ![name] = effect.returned,
              !.written = @ \cup effect.written,
              !.next = @ + 1]

EngineInit ==
    /\ in_audio \in InputArrays
    /\ in_sr \in SampleRates
    /\ in_reference \in {None} \cup ReferenceArrays
    /\ in_reference_sr \in IF IsNone(in_reference) THEN {0} ELSE SampleRates
    /\ self_target_lufs \in TargetChoices
    /\ pc = "Idle"
    /\ audio = in_audio
    /\ sr = in_sr
    /\ reference_params = None
    /\ target_lufs = None
    /\ channel = 0
    /\ ch_audio = <<>>
    /\ stage = "none"
    /\ processed_channels = <<>>
    /\ result = None
    /\ error = "none"
    /\ history = <<>>
    /\ normalize_targets = <<>>
    /\ refs = [InitialRefs EXCEPT !.reference =
                  IF IsNone(in_reference) THEN NoObject ELSE CallerReference]
    /\ analyzer_runs = 0

Raise(e) ==
    /\ pc' = "Failed"
    /\ error' = e
    /\ UNCHANGED <<in_audio, in_sr, in_reference, in_reference_sr, self_target_lufs,
                   audio, sr, reference_params, target_lufs, channel, ch_audio,
                   stage, processed_channels, result, history, normalize_targets,
                   refs, analyzer_runs>>

\* lines 338-342
Begin ==
    /\ pc = "Idle"
    /\ pc' = IF IsNone(in_reference) THEN "Prepare" ELSE "ReferenceAnalysis"
    /\ UNCHANGED <<in_audio, in_sr, in_reference, in_reference_sr, self_target_lufs,
                   audio, sr, reference_params, target_lufs, channel, ch_audio,
                   stage, processed_channels, result, error, history,
                   normalize_targets, refs, analyzer_runs>>

\* the reference as analyze_reference receives it (lines 345-346)
reference_at_rate ==
    IF in_reference_sr # sr THEN resample(in_reference, in_reference_sr, sr)
    ELSE in_reference

\* a run that analyses its reference again
phase_after_analysis_retry == "ReferenceAnalysis"

\* line 352: after the analysis the run goes on with the main buffer
phase_after_analysis == "Prepare"

\* lines 343-350, the analysis succeeding
AnalyzeReference ==
    /\ pc = "ReferenceAnalysis"
    /\ ~(in_reference_sr # sr /\ resample_raises(in_reference))
    /\ ~analysis_raises(reference_at_rate)
    /\ \E spectral \in spectra_of(mono_mix(reference_at_rate)) :
          reference_params' = analyze_reference(reference_at_rate, spectral)
    /\ refs' = IF in_reference_sr # sr
                THEN Bound(refs, "reference",
                           resample_effect(refs.reference, New(refs.next)))
                ELSE refs
    /\ analyzer_runs' = analyzer_runs + 1
    /\ pc' = phase_after_analysis
    /\ UNCHANGED <<in_audio, in_sr, in_reference, in_reference_sr, self_target_lufs,
                   audio, sr, target_lufs, channel, ch_audio,
                   stage, processed_channels, result, error, history,
                   normalize_targets>>

\* lines 343-350, the resampling or the analysis raising
AnalyzeReferenceRaises ==
    /\ pc = "ReferenceAnalysis"
    /\ \/ in_reference_sr # sr /\ resample_raises(in_reference)
       \/ analysis_raises(reference_at_rate)
    /\ Raise("reference")

\* lines 352-368, the resampling of line 362 succeeding or not needed
Prepare ==
    /\ pc = "Prepare"
    /\ LET shaped == normalize_topology(audio)
       IN  /\ ~(sr # SAMPLE_RATE /\ resample_raises(shaped))
           /\ audio' = IF sr # SAMPLE_RATE THEN resample(shaped, sr, SAMPLE_RATE)
                       ELSE shaped
    /\ refs' = IF sr # SAMPLE_RATE
                THEN Bound(refs, "audio", resample_effect(refs.audio, New(refs.next)))
                ELSE refs
    /\ sr' = SAMPLE_RATE
    /\ target_lufs' = effective_target_lufs(reference_params, self_target_lufs)
    /\ channel' = 1
    /\ stage' = "eq"
    /\ pc' = "ChannelProcessing"
    /\ UNCHANGED <<in_audio, in_sr, in_reference, in_reference_sr, self_target_lufs,
                   reference_params, ch_audio, processed_channels, result, error,
                   history, normalize_targets, analyzer_runs>>

\* line 362 raising
PrepareRaises ==
    /\ pc = "Prepare"
    /\ sr # SAMPLE_RATE
    /\ resample_raises(normalize_topology(audio))
    /\ Raise("resample")

\* what every stage leaves alone
StageFrame ==
    UNCHANGED <<in_audio, in_sr, in_reference, in_reference_sr, self_target_lufs,
                audio, sr, reference_params, target_lufs, error, analyzer_runs>>

StageDone(name, out) ==
    /\ ch_audio' = out
    /\ history' = Append(history, <<channel, name>>)

\* a chain that starts from the channel with the first channel mixed in
channel_input_linked ==
    [i \in 1..Len(audio.rows[channel]) |->
        FAdd(audio.rows[channel][i], audio.rows[1][i])]

\* a chain that normalizes before it compresses
stage_after_swapped(name) ==
    IF name = "eq" THEN "normalize"
    ELSE IF name = "normalize" THEN "compression"
    ELSE IF name = "compression" THEN "limiter"
    ELSE "eq"

\* lines 375-378 (383-386): the stage that follows a stage; after the
\* limiter the loop starts the next channel with the EQ
stage_after(name) ==
    IF name = "eq" THEN "compression"
    ELSE IF name = "compression" THEN "normalize"
    ELSE IF name = "normalize" THEN "limiter"
    ELSE "eq"

\* line 374: the channel a chain starts from
channel_input == audio.rows[channel]

\* line 375 (383): apply_eq returning.  signal.sosfilt is handed the buffer
\* as it is; whether it accepts an empty one depends on the scipy at hand,
\* so both outcomes are possible for an empty channel.  In reference mode
\* the spectrum of the high-passed channel is measured by librosa, which
\* rejects a buffer that is empty or not finite everywhere.
StageEq ==
    /\ pc = "ChannelProcessing" /\ stage = "eq"
    /\ IF IsNone(reference_params)
       THEN StageDone("eq", apply_eq(channel_input, None, ZeroSpectrum))
       ELSE /\ Len(channel_input) > 0
            /\ AllFinite(eq_highpass(channel_input))
            /\ \E current_spectral \in spectra_of(eq_highpass(channel_input)) :
                  StageDone("eq", apply_eq(channel_input, reference_params,
                                           current_spectral))
    /\ refs' = Bound(refs, "ch_audio", eq_effect(refs.audio, New(refs.next)))
    /\ stage' = stage_after("eq")
    /\ UNCHANGED <<pc, channel, processed_channels, result, normalize_targets>>
    /\ StageFrame

StageEqRaises ==
    /\ pc = "ChannelProcessing" /\ stage = "eq"
    /\ \/ Len(channel_input) = 0
       \/ ~IsNone(reference_params) /\ ~AllFinite(eq_highpass(channel_input))
    /\ Raise("apply_eq")

\* line 376 (384)
StageCompression ==
    /\ pc = "ChannelProcessing" /\ stage = "compression"
    /\ StageDone("compression",
                 apply_compression(ch_audio, Fin(COMPRESSION_THRESHOLD),
                                   Fin(COMPRESSION_RATIO), reference_params))
    /\ refs' = Bound(refs, "ch_audio",
                      compression_effect(refs.ch_audio, New(refs.next)))
    /\ stage' = stage_after("compression")
    /\ UNCHANGED <<pc, channel, processed_channels, result, normalize_targets>>
    /\ StageFrame

\* line 377 (385)
StageNormalize ==
    /\ pc = "ChannelProcessing" /\ stage = "normalize"
    /\ Len(ch_audio) > 0
    /\ StageDone("normalize", loudness_normalize(ch_audio, target_lufs, self_target_lufs))
    /\ normalize_targets' = Append(normalize_targets,
                                   target_or_default(target_lufs, self_target_lufs))
    /\ refs' = Bound(refs, "ch_audio",
                      normalize_effect(refs.ch_audio, New(refs.next)))
    /\ stage' = stage_after("normalize")
    /\ UNCHANGED <<pc, channel, processed_channels, result>>
    /\ StageFrame

\* line 318: np.max of an empty array raises ValueError
StageNormalizeRaises ==
    /\ pc = "ChannelProcessing" /\ stage = "normalize"
    /\ Len(ch_audio) = 0
    /\ Raise("loudness_normalize")

\* lines 378-380 (386), and the return of line 390 after the last channel
StageLimiter ==
    /\ pc = "ChannelProcessing" /\ stage = "limiter"
    /\ LET limited == apply_limiter(ch_audio, Fin(LIMITER_CEILING))
           last == audio.ndim = 1 \/ channel = Len(audio.rows)
           clipped == Bound(refs, "ch_audio",
                            limiter_effect(refs.ch_audio, New(refs.next)))
           stacked == Bound(clipped, "audio",
                            stack_effect(clipped.ch_audio, New(clipped.next)))
       IN  /\ StageDone("limiter", limited)
           /\ refs' = IF ~last THEN clipped
                      ELSE IF audio.ndim = 2
                           THEN [stacked EXCEPT !.result = stacked.audio]
                           ELSE [clipped EXCEPT !.audio = clipped.ch_audio,
                                                !.result = clipped.ch_audio]
           /\ processed_channels' = IF audio.ndim = 2
                                    THEN Append(processed_channels, limited)
                                    ELSE processed_channels
           /\ IF last
              THEN /\ pc' = "Done"
                   /\ result' = IF audio.ndim = 2 THEN Array2(processed_channels')
                                ELSE Array1(limited)
                   /\ UNCHANGED <<channel, stage>>
              ELSE /\ channel' = channel + 1
                   /\ stage' = stage_after("limiter")
                   /\ UNCHANGED <<pc, result>>
    /\ UNCHANGED normalize_targets
    /\ StageFrame

\* ------------------------------------------------------------------------
\* The stages called on their own
\* ------------------------------------------------------------------------

VARIABLES
    fn_audio,   \* the buffer handed to a stage
    fn_call     \* the last call made on it: its arguments and what it returned

stage_vars == <<fn_audio, fn_call>>

StageSamples ==
    {Zero, Faint, Fin(300), Fin(701), Fin(-900), Fin(1500), NaN, Inf(1), Inf(-1)}
Ceilings == {Fin(1), Fin(500), Fin(LIMITER_CEILING), Fin(Scale)}
StageTargets == {Fin(DEFAULT_TARGET_LUFS), Fin(-2000), Fin(-23000), None}

\* a long buffer with one loud sample, a few faint ones and silence, and
\* a short one that is silent but for its last sample
SpikeLen == 256
SpikeBuffer ==
    [i \in 1..SpikeLen |-> IF i = 1 THEN Fin(-900)
                           ELSE IF i <= SpikeLen \div 10 THEN Fin(1) ELSE Zero]
BurstBuffer == <<Zero, Zero, Fin(-900)>>

StageInit ==
    /\ fn_audio \in UNION {Patterns(StageSamples, n) : n \in 0..MaxLen}
                     \cup {SpikeBuffer, BurstBuffer}
    /\ fn_call = [op |-> "none"]

CallLimiter ==
    /\ \E ceiling \in Ceilings :
          fn_call' = [op |-> "apply_limiter", ceiling |-> ceiling,
                      out |-> apply_limiter(fn_audio, ceiling)]
    /\ UNCHANGED fn_audio

CallNormalize ==
    /\ Len(fn_audio) > 0
    /\ \E target \in StageTargets, self_target \in TargetChoices :
          fn_call' = [op |-> "loudness_normalize", target_lufs |-> target,
                      self_target_lufs |-> self_target,
                      out |-> loudness_normalize(fn_audio, target, self_target)]
    /\ UNCHANGED fn_audio

\* np.max of an empty array raises (line 318)
CallNormalizeRaises ==
    /\ Len(fn_audio) = 0
    /\ fn_call' = [op |-> "loudness_normalize", raised |-> TRUE]
    /\ UNCHANGED fn_audio

\* the thresholds and ratios a caller may pass, and the profile entries
\* apply_compression reads in reference mode
Thresholds == {Fin(THRESHOLD_MIN), Fin(COMPRESSION_THRESHOLD)}
Ratios == {Fin(Scale), Fin(1500), Fin(COMPRESSION_RATIO), Fin(CR_MAX)}
CompressionProfiles ==
    {[dynamic_range |-> Fin(d), compression_ratio |-> r] :
        d \in {DR_MIN, 12000, DR_MAX}, r \in {Fin(1500), Fin(CR_MAX)}}

\* apply_compression(audio, threshold, ratio, reference_params); the call
\* is recorded with the threshold and ratio it was given and those it
\* worked with
CallCompression ==
    /\ \E threshold \in Thresholds, ratio \in Ratios,
          profile \in {None} \cup CompressionProfiles :
          fn_call' = [op |-> "apply_compression",
                      reference_params |-> profile,
                      given_threshold |-> threshold, given_ratio |-> ratio,
                      threshold |-> compression_threshold(threshold, profile),
                      ratio |-> compression_ratio_used(ratio, profile),
                      out |-> apply_compression(fn_audio, threshold, ratio,
                                                profile)]
    /\ UNCHANGED fn_audio

\* the arrays a caller may build of the buffer: itself, and 2-D arrays
\* with a second channel equal or opposite to it
AnalyzerArrays ==
    {Array1(fn_audio), Array2(<<fn_audio, fn_audio>>),
     Array2(<<fn_audio, [i \in 1..Len(fn_audio) |-> FNeg(fn_audio[i])]>>)}

\* ReferenceAnalyzer.analyze_reference(audio, sr) returning its profile
CallAnalyze ==
    /\ \E arr \in AnalyzerArrays :
          /\ ~analysis_raises(arr)
          /\ \E spectral \in spectra_of(mono_mix(arr)) :
                fn_call' = [op |-> "analyze_reference", arr |-> arr,
                            out |-> analyze_reference(arr, spectral)]
    /\ UNCHANGED fn_audio

\* ... and raising (an empty or non-finite array)
CallAnalyzeRaises ==
    /\ \E arr \in AnalyzerArrays :
          /\ analysis_raises(arr)
          /\ fn_call' = [op |-> "analyze_reference", arr |-> arr, raised |-> TRUE]
    /\ UNCHANGED fn_audio

\* the ceilings a caller may pass, in and out of (0, 1]
AnyCeilings == Ceilings \cup {Zero, Fin(-500), Fin(1200)}

\* apply_limiter applied to its own result
CallLimiterTwice ==
    /\ \E ceiling \in AnyCeilings :
          LET once == apply_limiter(fn_audio, ceiling)
          IN  fn_call' = [op |-> "apply_limiter twice", ceiling |-> ceiling,
                          once |-> once, out |-> apply_limiter(once, ceiling)]
    /\ UNCHANGED fn_audio

\* the band energies of a profile and of a channel: zero for silence,
\* values whose quotients fall below 0.8, on 0.8, on 1.2 and above it, and
\* for the profile NaN, which is what np.mean returns for the band above
\* 5 kHz when the reference was analysed at a rate of 10 kHz or less
ProfileEnergies == {Zero, Fin(400), Fin(480), Fin(720), NaN}
ChannelEnergies == {Zero, Fin(400), Fin(600)}
LowProfileEnergies == {Fin(400), Fin(480), NaN}
LowChannelEnergies == {Zero, Fin(400)}

\* _apply_reference_eq(audio, sr, reference_params) returning; the call is
\* recorded with the two ratios, the actions and the gains
CallReferenceEq ==
    /\ Len(fn_audio) > 0 /\ Len(fn_audio) <= MaxLen /\ AllFinite(fn_audio)
    /\ \E rh \in ProfileEnergies, rl \in LowProfileEnergies,
          ch \in ChannelEnergies, cl \in LowChannelEnergies :
          LET profile == [high_freq_energy |-> rh, low_freq_energy |-> rl]
              current == [high_freq_energy |-> ch, low_freq_energy |-> cl]
              high_freq_ratio == energy_ratio(rh, ch)
              low_freq_ratio == energy_ratio(rl, cl)
          IN  fn_call' = [op |-> "apply_reference_eq",
                          high_freq_ratio |-> high_freq_ratio,
                          low_freq_ratio |-> low_freq_ratio,
                          high_action |-> high_freq_action(high_freq_ratio),
                          low_action |-> low_freq_action(low_freq_ratio),
                          hf_gain |-> boost_gain(HF_GAIN_CAP, high_freq_ratio),
                          lf_gain |-> boost_gain(LF_GAIN_CAP, low_freq_ratio),
                          out |-> apply_reference_eq(fn_audio, profile, current)]
    /\ UNCHANGED fn_audio

\* line 208: librosa rejects a buffer that is empty or not finite
CallReferenceEqRaises ==
    /\ Len(fn_audio) = 0 \/ ~AllFinite(fn_audio)
    /\ fn_call' = [op |-> "apply_reference_eq", raised |-> TRUE]
    /\ UNCHANGED fn_audio

\* ------------------------------------------------------------------------
\* master_audio as one call (the handler calls it without yielding)
\* ------------------------------------------------------------------------

\* lines 375-378 (383-386) on one channel
process_channel(ch, params, target, self_target, current_spectral) ==
    apply_limiter(
        loudness_normalize(
            apply_compression(apply_eq(ch, params, current_spectral),
                              Fin(COMPRESSION_THRESHOLD), Fin(COMPRESSION_RATIO),
                              params),
            target, self_target),
        Fin(LIMITER_CEILING))

\* a channel whose chain raises: an empty one (in sosfilt or in np.max),
\* and in reference mode one librosa rejects
channel_raises(ch, params) ==
    \/ Len(ch) = 0
    \/ ~IsNone(params) /\ ~AllFinite(eq_highpass(ch))

\* master_audio(audio, sr, reference_audio, reference_sr) on an engine whose
\* target_lufs is self_target; the spectra are what librosa measures of the
\* reference and of each high-passed channel.  The result is the exception
\* raised or the array returned, with the rate its samples are at and the
\* target the run was normalized to.
master_audio(arr, arr_sr, reference, reference_sr, self_target, reference_spectral, channel_spectral) ==
    LET ref == IF ~IsNone(reference) /\ reference_sr # arr_sr
               THEN resample(reference, reference_sr, arr_sr) ELSE reference
        ref_raises == /\ ~IsNone(reference)
                      /\ \/ reference_sr # arr_sr /\ resample_raises(reference)
                         \/ analysis_raises(ref)
        params == IF IsNone(reference) \/ ref_raises THEN None
                  ELSE analyze_reference(ref, reference_spectral)
        shaped == normalize_topology(arr)
        rs_raises == arr_sr # SAMPLE_RATE /\ resample_raises(shaped)
        a == IF arr_sr # SAMPLE_RATE /\ ~rs_raises
             THEN resample(shaped, arr_sr, SAMPLE_RATE) ELSE shaped
        target == effective_target_lufs(params, self_target)
        ch_raises == \E c \in 1..Len(a.rows) : channel_raises(a.rows[c], params)
    IN  IF ref_raises \/ rs_raises \/ ch_raises
        THEN [raised |-> TRUE]
        ELSE [raised |-> FALSE,
              audio |-> [a EXCEPT !.rows =
                            [c \in 1..Len(a.rows) |->
                                process_channel(a.rows[c], params, target,
                                                self_target, channel_spectral[c])]],
              sr |-> SAMPLE_RATE,
              target_lufs |-> target_or_default(target, self_target)]

\* ------------------------------------------------------------------------
\* api.py: the /master handler
\* ------------------------------------------------------------------------

VARIABLES
    requests,     \* the handler invocations: their position and locals
    upload_dir,   \* the paths that exist in UPLOAD_DIR
    output_dir,   \* the files that exist in OUTPUT_DIR
    next_uuid,    \* uuid.uuid4(): a value never returned before
    cleanups      \* the DELETE /cleanup calls answered so far

api_vars == <<requests, upload_dir, output_dir, next_uuid, cleanups>>

MaxRequests == 2
MaxCleanups == 1

allowed_extensions == {".wav", ".mp3", ".flac", ".m4a"}

\* what librosa.load makes of an uploaded file: it raises, or it returns a
\* mono buffer and the file's own rate (sr=None, mono by default)
Undecodable == [decodes |-> FALSE]
Decoded(a, rate) == [decodes |-> TRUE, audio |-> Array1(a), sr |-> rate]
Upload(ext, content) == [ext |-> ext, content |-> content]
Uploads ==
    {Upload(".wav", Undecodable),
     Upload(".wav", Decoded(<<Fin(300), Fin(-900)>>, SAMPLE_RATE)),
     Upload(".wav", Decoded(<<Fin(300), Fin(-900)>>, 22050)),
     Upload(".wav", Decoded(<<>>, SAMPLE_RATE)),
     Upload(".txt", Undecodable)}
ReferenceUploads ==
    {None,
     Upload(".wav", Undecodable),
     Upload(".wav", Decoded(<<Fin(-900), Fin(-900)>>, SAMPLE_RATE)),
     Upload(".wav", Decoded(<<Fin(300), Zero>>, SAMPLE_RATE)),
     Upload(".txt", Undecodable)}
\* the spectra librosa is taken to report in the handler's runs
ApiSpectra == {s \in Spectra : s.high_freq_energy = s.low_freq_energy}
                 \cup {ZeroSpectrum}

input_path(session_id) == [session |-> session_id, name |-> "input"]
reference_path(session_id) == [session |-> session_id, name |-> "reference"]
output_path(session_id) == [session |-> session_id, name |-> "mastered.wav"]

\* lines 73-91: the extension checks; no reference, no check
extension_allowed(upload) ==
    IF IsNone(upload) THEN TRUE ELSE upload.ext \in allowed_extensions

NewRequest == [pc |-> "new", status |-> 0]

ApiInit ==
    /\ requests = [r \in 1..MaxRequests |-> NewRequest]
    /\ upload_dir = {}
    /\ output_dir = {}
    /\ next_uuid = 1
    /\ cleanups = <<>>

\* lines 73-91: an unsupported extension is answered 400 before anything
\* is written
RejectRequest(r) ==
    /\ requests[r].pc = "new"
    /\ \A q \in 1..(r - 1) : requests[q].pc # "new"
    /\ \E file \in Uploads, reference_file \in ReferenceUploads :
          /\ ~(extension_allowed(file) /\ extension_allowed(reference_file))
          /\ requests' = [requests EXCEPT ![r] =
                             [pc |-> "finished", status |-> 400, file |-> file,
                              reference_file |-> reference_file]]
    /\ UNCHANGED <<upload_dir, output_dir, next_uuid, self_target_lufs, cleanups>>

\* lines 93-106: the ids and paths, the input file opened for writing, and
\* the handler waiting for the upload's bytes
AcceptRequest(r) ==
    /\ requests[r].pc = "new"
    /\ \A q \in 1..(r - 1) : requests[q].pc # "new"
    /\ \E file \in Uploads, reference_file \in ReferenceUploads,
          form_target \in TargetChoices :
          /\ extension_allowed(file)
          /\ extension_allowed(reference_file)
          /\ requests' = [requests EXCEPT ![r] =
                             [pc |-> "await_input", status |-> 0, file |-> file,
                              reference_file |-> reference_file,
                              target_lufs |-> form_target,
                              session_id |-> next_uuid]]
    /\ upload_dir' = upload_dir \cup {input_path(next_uuid)}
    /\ next_uuid' = next_uuid + 1
    /\ UNCHANGED <<output_dir, self_target_lufs, cleanups>>

\* a finally block that removes the input file only
finally_cleanup_input_only(dir, session_id, has_reference) ==
    dir \ {input_path(session_id)}

\* lines 164-169: the finally block
finally_cleanup(dir, session_id, has_reference) ==
    dir \ ({input_path(session_id)}
           \cup IF has_reference THEN {reference_path(session_id)} ELSE {})

\* a handler that leaves engine.target_lufs as it finds it
engine_target_after_untouched(reference_audio, form_target, current) == current

\* lines 127-129: engine.target_lufs after the handler's update
engine_target_after(reference_audio, form_target, current) ==
    IF IsNone(reference_audio) THEN form_target ELSE current

Finish(req, code) == [req EXCEPT !.pc = "finished", !.status = code]

\* the spectra librosa may measure during master_audio(arr, ..., reference, ...):
\* of the reference, and of each high-passed channel
reference_spectra(reference) ==
    IF IsNone(reference) \/ analysis_raises(reference) THEN {ZeroSpectrum}
    ELSE spectra_of(mono_mix(reference))
channel_spectra(arr, arr_sr, reference) ==
    LET shaped == normalize_topology(arr)
        rows == IF arr_sr # SAMPLE_RATE /\ ~resample_raises(shaped)
                THEN resample(shaped, arr_sr, SAMPLE_RATE).rows ELSE shaped.rows
        measured(c) == IF IsNone(reference) \/ ~AllFinite(eq_highpass(rows[c]))
                       THEN {ZeroSpectrum}
                       ELSE spectra_of(eq_highpass(rows[c]))
    IN  {f \in [1..Len(rows) -> ApiSpectra] :
            \A c \in 1..Len(rows) : f[c] \in measured(c)}

\* lines 117-169 from the last await on: nothing in them yields, so they are
\* one step.  It ends in 500 when a load, master_audio or sf.write raises
\* (sf.write may fail whatever it is given), in 200 otherwise.
Process(r) ==
    LET req == requests[r]
        has_reference == ~IsNone(req.reference_file)
        reference_loads == ~has_reference \/ req.reference_file.content.decodes
        reference_audio == IF has_reference /\ reference_loads
                           THEN req.reference_file.content.audio ELSE None
        reference_sr == IF has_reference /\ reference_loads
                        THEN req.reference_file.content.sr ELSE 0
        loads == reference_loads /\ req.file.content.decodes
        new_target == engine_target_after(reference_audio, req.target_lufs,
                                          self_target_lufs)
    IN  /\ upload_dir' = finally_cleanup(upload_dir, req.session_id, has_reference)
        /\ UNCHANGED <<next_uuid, cleanups>>
        /\ IF ~loads
           THEN /\ requests' = [requests EXCEPT ![r] = Finish(req, 500)]
                /\ UNCHANGED <<output_dir, self_target_lufs>>
           ELSE /\ self_target_lufs' = new_target
                /\ \E reference_spectral \in
                          reference_spectra(reference_audio) \cap ApiSpectra,
                      channel_spectral \in
                          channel_spectra(req.file.content.audio,
                                          req.file.content.sr, reference_audio) :
                      LET run == master_audio(req.file.content.audio,
                                              req.file.content.sr,
                                              reference_audio, reference_sr,
                                              new_target, reference_spectral,
                                              channel_spectral)
                      IN  \/ /\ requests' = [requests EXCEPT ![r] = Finish(req, 500)]
                             /\ UNCHANGED output_dir
                          \/ /\ ~run.raised
                             /\ requests' = [requests EXCEPT ![r] =
                                    Finish(req, 200)
                                      @@ [used_target |-> run.target_lufs]]
                             /\ output_dir' = output_dir \cup
                                    {[path |-> output_path(req.session_id),
                                      audio |-> run.audio,
                                      samplerate |-> req.file.content.sr,
                                      rate |-> run.sr]}

\* lines 106-112: the input's bytes have arrived and are written; with a
\* reference the reference file is opened and its bytes awaited, without one
\* the handler runs to its end
InputRead(r) ==
    /\ requests[r].pc = "await_input"
    /\ ~IsNone(requests[r].reference_file)
    /\ requests' = [requests EXCEPT ![r].pc = "await_reference"]
    /\ upload_dir' = upload_dir \cup {reference_path(requests[r].session_id)}
    /\ UNCHANGED <<output_dir, next_uuid, self_target_lufs, cleanups>>

InputReadAndProcess(r) ==
    /\ requests[r].pc = "await_input"
    /\ IsNone(requests[r].reference_file)
    /\ Process(r)

\* lines 112-169: the reference's bytes have arrived
ReferenceReadAndProcess(r) ==
    /\ requests[r].pc = "await_reference"
    /\ Process(r)

\* the client goes away while the handler waits: the await raises
\* CancelledError, which except Exception does not catch and finally sees
Cancelled(r) ==
    /\ requests[r].pc \in {"await_input", "await_reference"}
    /\ requests' = [requests EXCEPT ![r] = Finish(requests[r], 499)]
    /\ upload_dir' = finally_cleanup(upload_dir, requests[r].session_id,
                                     ~IsNone(requests[r].reference_file))
    /\ UNCHANGED <<output_dir, next_uuid, self_target_lufs, cleanups>>

\* The session_id of DELETE /cleanup/{session_id} is any text without a
\* slash that the client puts in the path: the id a /master answer carried
\* in X-Session-ID, or, among others, "*", which glob reads as a wildcard.
SessionId(n) == [text |-> "uuid", id |-> n]
Wildcard == [text |-> "*", id |-> 0]
SessionIds == {SessionId(n) : n \in 1..MaxRequests} \cup {Wildcard}

\* OUTPUT_DIR.glob(f"{session_id}_*") yielding the file <session>_<name>
glob_matches(session_id, path) ==
    IF session_id.text = "*" THEN TRUE ELSE path.session = session_id.id

\* lines 171-179: cleanup_session unlinks every file the pattern yields.
\* The calls followed are those made once a /master answer has left a file
\* (on an empty directory the loop has nothing to do).
Cleanup(session_id) ==
    /\ Len(cleanups) < MaxCleanups
    /\ output_dir # {}
    /\ output_dir' = {f \in output_dir : ~glob_matches(session_id, f.path)}
    /\ cleanups' = Append(cleanups,
                          [session_id |-> session_id,
                           before |-> {f.path.session : f \in output_dir}])
    /\ UNCHANGED <<requests, upload_dir, next_uuid, self_target_lufs>>

\* ------------------------------------------------------------------------
\* Specifications
\* ------------------------------------------------------------------------

vars == <<engine_vars, self_target_lufs, stage_vars, api_vars>>

EngineIdle ==
    /\ in_audio = Array1(<<>>) /\ in_sr = SAMPLE_RATE
    /\ in_reference = None /\ in_reference_sr = 0
    /\ pc = "Idle" /\ audio = in_audio /\ sr = in_sr
    /\ reference_params = None /\ target_lufs = None
    /\ channel = 0 /\ ch_audio = <<>> /\ stage = "none"
    /\ processed_channels = <<>> /\ result = None
    /\ error = "none" /\ history = <<>> /\ normalize_targets = <<>>
    /\ refs = InitialRefs /\ analyzer_runs = 0

StageIdle == fn_audio = <<>> /\ fn_call = [op |-> "none"]

\* one run of master_audio on an engine constructed with some target
Init == EngineInit /\ StageIdle /\ ApiInit
EngineOnly == UNCHANGED <<stage_vars, api_vars>>
Next ==
    \/ Begin /\ EngineOnly
    \/ AnalyzeReference /\ EngineOnly
    \/ AnalyzeReferenceRaises /\ EngineOnly
    \/ Prepare /\ EngineOnly
    \/ PrepareRaises /\ EngineOnly
    \/ StageEq /\ EngineOnly
    \/ StageEqRaises /\ EngineOnly
    \/ StageCompression /\ EngineOnly
    \/ StageNormalize /\ EngineOnly
    \/ StageNormalizeRaises /\ EngineOnly
    \/ StageLimiter /\ EngineOnly
Spec == Init /\ [][Next]_vars

\* the stages applied to a buffer
StageSpecInit ==
    /\ EngineIdle /\ self_target_lufs = Fin(DEFAULT_TARGET_LUFS)
    /\ StageInit /\ ApiInit
StagesOnly == UNCHANGED <<engine_vars, self_target_lufs, api_vars>>
StageSpecNext ==
    \/ CallLimiter /\ StagesOnly
    \/ CallNormalize /\ StagesOnly
    \/ CallNormalizeRaises /\ StagesOnly
    \/ CallLimiterTwice /\ StagesOnly
    \/ CallCompression /\ StagesOnly
    \/ CallAnalyze /\ StagesOnly
    \/ CallAnalyzeRaises /\ StagesOnly
    \/ CallReferenceEq /\ StagesOnly
    \/ CallReferenceEqRaises /\ StagesOnly
StageSpec == StageSpecInit /\ [][StageSpecNext]_vars

\* the application: one engine created with the default target (api.py:43)
\* and handler invocations that interleave where they await
ApiSpecInit ==
    /\ EngineIdle /\ self_target_lufs = Fin(DEFAULT_TARGET_LUFS)
    /\ StageIdle /\ ApiInit
ApiOnly == UNCHANGED <<engine_vars, stage_vars>>
ApiSpecNext ==
    \/ \E r \in 1..MaxRequests : RejectRequest(r) /\ ApiOnly
    \/ \E r \in 1..MaxRequests : AcceptRequest(r) /\ ApiOnly
    \/ \E r \in 1..MaxRequests : InputRead(r) /\ ApiOnly
    \/ \E r \in 1..MaxRequests : InputReadAndProcess(r) /\ ApiOnly
    \/ \E r \in 1..MaxRequests : ReferenceReadAndProcess(r) /\ ApiOnly
    \/ \E r \in 1..MaxRequests : Cancelled(r) /\ ApiOnly
    \/ \E session_id \in SessionIds : Cleanup(session_id) /\ ApiOnly
ApiSpec == ApiSpecInit /\ [][ApiSpecNext]_vars

\* ------------------------------------------------------------------------
\* The properties
\* ------------------------------------------------------------------------

\* the channels master_audio works on, as given
input_rows == normalize_topology(in_audio).rows

SilentRow(a) == Len(a) > 0 /\ AllZero(a)

AllWithin(a, bound) == \A i \in 1..Len(a) : FLe(FAbs(a[i]), bound)

\* C1: a silent channel given to master_audio comes back silent and of the
\* same length: when a run has returned, every channel that was given
\* all-zero is all-zero in the result, with no non-finite sample, and as
\* long as the channel that was processed.
C1_SilentChannelStaysSilent ==
    \A c \in 1..Len(input_rows) :
        (pc = "Done" /\ SilentRow(input_rows[c]))
        => /\ Len(result.rows[c]) = Len(audio.rows[c])
           /\ AllZero(result.rows[c])

\* C2: loudness_normalize returns its input unchanged when the rms of the
\* input is exactly 0, for every target_lufs.
C2_ZeroRmsShortCircuits ==
    (fn_call.op = "loudness_normalize" /\ rms_of(fn_audio) = Zero)
    => fn_call.out = fn_audio

\* C3: master_audio fails fast on invalid input.  A run given a buffer with
\* a non-finite sample never completes a stage and never returns; a run
\* given an empty buffer never returns.
C3_InvalidInputFailsFast ==
    /\ ~ArrayFinite(in_audio) => (history = <<>> /\ pc # "Done")
    /\ NumSamples(in_audio) = 0 => pc # "Done"

\* C4: every buffer that master_audio returns contains only finite samples.
C4_ResultIsFinite ==
    pc = "Done" => ArrayFinite(result)

\* the target a successful run was normalized to is its request's own: the
\* submitted one in standard mode, that of its own reference otherwise
RunUsedOwnTarget(req) ==
    req.used_target =
        IF IsNone(req.reference_file) THEN req.target_lufs
        ELSE LET reference == req.reference_file.content
                 at_rate == IF reference.sr # req.file.content.sr
                            THEN resample(reference.audio, reference.sr,
                                          req.file.content.sr)
                            ELSE reference.audio
             IN  analyze_reference(at_rate, ZeroSpectrum).target_lufs

\* C5 as stated: the requests share no mutable state, so the engine they
\* all read is as api.py:43 constructed it whatever requests have run, and
\* each successful run was normalized to its own target.
C5_NoSharedMutableState ==
    /\ self_target_lufs = Fin(DEFAULT_TARGET_LUFS)
    /\ \A r \in 1..MaxRequests :
          requests[r].status = 200 => RunUsedOwnTarget(requests[r])

\* C5 amended: the requests do share the engine's target_lufs, which a
\* standard-mode request overwrites, but under every interleaving and
\* sequence of requests each standard-mode run is normalized to the target
\* submitted with its request and each reference-mode run to the target of
\* its own reference.
C5_EachRunUsesOwnTarget ==
    \A r \in 1..MaxRequests :
        requests[r].status = 200 => RunUsedOwnTarget(requests[r])

\* a standard-mode request has changed the engine's target, and a
\* reference-mode request accepted after it has been normalized to another
C5_Witness ==
    /\ requests[1].status = 200 /\ requests[2].status = 200
    /\ IsNone(requests[1].reference_file) /\ ~IsNone(requests[2].reference_file)
    /\ requests[1].session_id < requests[2].session_id
    /\ requests[1].target_lufs # Fin(DEFAULT_TARGET_LUFS)
    /\ self_target_lufs = requests[1].target_lufs
    /\ requests[2].used_target # self_target_lufs

\* C6: once the /master handler has finished, on whatever exit path, the
\* input temp file and the reference temp file of its request do not exist.
C6_TempFilesRemoved ==
    \A r \in 1..MaxRequests :
        (requests[r].pc = "finished" /\ requests[r].status # 400)
        => /\ input_path(requests[r].session_id) \notin upload_dir
           /\ reference_path(requests[r].session_id) \notin upload_dir

\* one request with a reference has failed and one has succeeded
C6_Witness ==
    /\ requests[1].pc = "finished" /\ requests[1].status = 500
    /\ ~IsNone(requests[1].reference_file)
    /\ requests[1].reference_file.content.decodes
    /\ requests[2].pc = "finished" /\ requests[2].status = 200
    /\ ~IsNone(requests[2].reference_file)

\* C7: the buffer master_audio returns is at the sample rate of the buffer
\* it was given.
C7_SampleRatePreserved ==
    pc = "Done" => sr = in_sr

\* C8: the target of a run comes from one source, the reference profile's
\* target_lufs when a reference is supplied and the engine's target_lufs
\* otherwise, and every channel of the run is normalized to that value.
C8_SingleTargetSource ==
    \A i \in 1..Len(normalize_targets) :
        normalize_targets[i] = IF IsNone(in_reference) THEN self_target_lufs
                               ELSE reference_params.target_lufs

\* a two-channel reference-mode run has returned, normalized to a profile
\* target that differs from the engine's
C8_Witness ==
    /\ pc = "Done" /\ ~IsNone(in_reference)
    /\ Len(normalize_targets) = 2
    /\ reference_params.target_lufs # self_target_lufs

\* C9: for a finite input that is not silent, every sample of the buffer
\* master_audio returns has absolute value at most 0.95.
C9_OutputWithinCeiling ==
    (pc = "Done" /\ ArrayFinite(in_audio)
        /\ \E c \in 1..Len(input_rows) : ~AllZero(input_rows[c]))
    => \A c \in 1..Len(result.rows) :
          AllWithin(result.rows[c], Fin(LIMITER_CEILING))

\* C10: every sample of apply_limiter(x, c) has absolute value at most c,
\* for any buffer x and any ceiling c in (0, 1].
C10_LimiterBoundsOutput ==
    fn_call.op = "apply_limiter" => AllWithin(fn_call.out, fn_call.ceiling)

\* C11: apply_limiter is idempotent: limiting the limited buffer again with
\* the same ceiling returns it sample for sample, for every buffer and
\* every ceiling.
C11_LimiterIdempotent ==
    fn_call.op = "apply_limiter twice" => fn_call.out = fn_call.once

\* the limiter was applied twice to a buffer the first pass had cut
C11_Witness ==
    /\ fn_call.op = "apply_limiter twice"
    /\ fn_call.ceiling = Fin(500)
    /\ fn_call.once # fn_audio
    /\ \E i \in 1..Len(fn_audio) : fn_audio[i] = Fin(1500)

\* sign(x) * (threshold + (|x| - threshold) / ratio)
compressed_value(x, threshold, ratio) ==
    FMul(FSign(x), FAdd(threshold, FDiv(FSub(FAbs(x), threshold), ratio)))

\* C12 as stated: for every sample x with |x| > threshold and every
\* ratio > 1, the output of apply_compression equals
\* sign(x) * (threshold + (|x| - threshold) / ratio) and is smaller in
\* magnitude than x.
C12_CompressionContracts ==
    (fn_call.op = "apply_compression" /\ FGt(fn_call.ratio, Fin(Scale)))
    => \A i \in 1..Len(fn_audio) :
          FGt(FAbs(fn_audio[i]), fn_call.threshold)
          => /\ fn_call.out[i] =
                   compressed_value(fn_audio[i], fn_call.threshold, fn_call.ratio)
             /\ FLt(FAbs(fn_call.out[i]), FAbs(fn_audio[i]))

\* C12 amended: for every finite sample x with |x| > threshold and every
\* ratio > 1 the output equals that expression and lies between the
\* threshold and |x| in magnitude; it is strictly below |x| for every
\* ratio from the default 3.0 up (for a ratio below 2 the rounded
\* expression returns |x| itself when |x| is one rounding step above the
\* threshold), and an infinite sample stays infinite.
C12_CompressionNeverExpands ==
    (fn_call.op = "apply_compression" /\ FGt(fn_call.ratio, Fin(Scale)))
    => \A i \in 1..Len(fn_audio) :
          FGt(FAbs(fn_audio[i]), fn_call.threshold)
          => /\ fn_call.out[i] =
                   compressed_value(fn_audio[i], fn_call.threshold, fn_call.ratio)
             /\ IsFin(fn_audio[i])
                => /\ FLe(fn_call.threshold, FAbs(fn_call.out[i]))
                   /\ FLe(FAbs(fn_call.out[i]), FAbs(fn_audio[i]))
                   /\ FLe(Fin(COMPRESSION_RATIO), fn_call.ratio)
                      => FLt(FAbs(fn_call.out[i]), FAbs(fn_audio[i]))
             /\ IsInf(fn_audio[i]) => fn_call.out[i] = fn_audio[i]

\* a buffer with a sample above the threshold and one below it was
\* compressed with the default threshold and ratio
C12_Witness ==
    /\ fn_call.op = "apply_compression"
    /\ IsNone(fn_call.reference_params)
    /\ fn_call.threshold = Fin(COMPRESSION_THRESHOLD)
    /\ fn_call.ratio = Fin(COMPRESSION_RATIO)
    /\ fn_audio = <<Fin(-900), Fin(300)>>
    /\ fn_call.out = <<Fin(-767), Fin(300)>>

Returned(call) == "out" \in DOMAIN call

Between(lo, x, hi) == FLe(lo, x) /\ FLe(x, hi)

\* C13: in the profile analyze_reference returns for a finite non-empty
\* input, dynamic_range lies in [0, 40] and compression_ratio in [1, 10],
\* and compression_ratio is 3.0 when the rms of the analysed signal is 0.
C13_ProfileWithinClamps ==
    (fn_call.op = "analyze_reference" /\ Returned(fn_call))
    => /\ Between(Fin(DR_MIN), fn_call.out.dynamic_range, Fin(DR_MAX))
       /\ Between(Fin(CR_MIN), fn_call.out.compression_ratio, Fin(CR_MAX))
       /\ rms_of(mono_mix(fn_call.arr)) = Zero
          => fn_call.out.compression_ratio = Fin(CR_DEFAULT)

\* a profile in which the upper clamp of dynamic_range and the lower clamp
\* of compression_ratio both engaged
C13_Witness ==
    /\ fn_call.op = "analyze_reference" /\ Returned(fn_call)
    /\ fn_audio = SpikeBuffer
    /\ fn_call.out.dynamic_range = Fin(DR_MAX)
    /\ fn_call.out.compression_ratio = Fin(CR_MIN)

\* the buffer loudness_normalize has after its gain, before its clip guard
gain_scaled(call) ==
    VScale(fn_audio,
           normalize_gain(fn_audio, target_or_default(call.target_lufs,
                                                      call.self_target_lufs)))

GuardEngages(call) == FGt(np_max_abs(gain_scaled(call)), Fin(CLIP_GUARD))

\* a signal of finite samples that is not silent
NonSilent(a) == AllFinite(a) /\ ~AllZero(a)

\* C14: after loudness_normalize on a signal that is not silent the peak
\* of the output is at most 0.95: exactly 0.95 when the peak of the
\* gain-scaled buffer exceeds 0.95, and otherwise the gain-scaled buffer is
\* returned as it is.
C14_NormalizedPeakWithinGuard ==
    (fn_call.op = "loudness_normalize" /\ Returned(fn_call) /\ NonSilent(fn_audio))
    => /\ FLe(np_max_abs(fn_call.out), Fin(CLIP_GUARD))
       /\ IF GuardEngages(fn_call)
          THEN np_max_abs(fn_call.out) = Fin(CLIP_GUARD)
          ELSE fn_call.out = gain_scaled(fn_call)

\* the numerical tolerance of a loudness comparison, in units of 0.001 dB
\* (the decibel conversions interpolate between whole dB)
LufsTolerance == 200

WithinTolerance(x, y) ==
    IsFin(x) /\ IsFin(y) /\ AbsInt(x.v - y.v) <= LufsTolerance

\* C15: for every mono signal that is not silent and every target L, the
\* estimated loudness of loudness_normalize(signal, L) equals L within the
\* tolerance when the clip guard does not engage and is strictly below L
\* when it engages.
C15_NormalizeReachesTarget ==
    (fn_call.op = "loudness_normalize" /\ Returned(fn_call) /\ NonSilent(fn_audio))
    => LET L == target_or_default(fn_call.target_lufs, fn_call.self_target_lufs)
           loudness == calculate_lufs(fn_call.out)
       IN  IF GuardEngages(fn_call) THEN FLt(loudness, L)
           ELSE WithinTolerance(loudness, L)

\* np.mean(audio ** 2) of a 2-D buffer runs over the samples of every channel
RECURSIVE flat(_)
flat(rows) == IF rows = <<>> THEN <<>> ELSE Head(rows) \o flat(Tail(rows))

\* engine.calculate_lufs(mastered, sample_rate) of the returned buffer
result_lufs == calculate_lufs(flat(result.rows))

\* the tolerance the reference test validates with, 2.0 dB
REFERENCE_TOLERANCE == 2000

\* C16: a buffer mastered with itself as the reference comes out with an
\* estimated loudness less than 2 dB away from the target_lufs that
\* analyze_reference reports for it (stated for buffers that are not silent).
C16_ReferenceLoudnessMatched ==
    (/\ pc = "Done"
     /\ in_reference = in_audio /\ in_reference_sr = in_sr
     /\ ~AllZero(flat(input_rows)))
    => /\ IsFin(result_lufs)
       /\ AbsInt(result_lufs.v - reference_params.target_lufs.v) < REFERENCE_TOLERANCE

\* what lines 352-363 hand the loop for channel c: that channel of the
\* caller's buffer, resampled when the rate is not the engine's
prepared_row(c) ==
    IF in_sr # SAMPLE_RATE THEN resample_row(input_rows[c], in_sr, SAMPLE_RATE)
    ELSE input_rows[c]

\* the buffers the four stages can make of one channel on its own, given
\* the profile and the target of the run
channel_outputs(row, params, target, self_target) ==
    {process_channel(row, params, target, self_target, current_spectral) :
        current_spectral \in IF IsNone(params) THEN {ZeroSpectrum}
                             ELSE spectra_of(eq_highpass(row))}

\* C17: the channels of a run are processed independently: every channel
\* of the returned buffer is what the four stages make of that channel of
\* the input alone, with the profile and target of the run; the other
\* channel and the order of the loop have no part in it.
C17_ChannelsIndependent ==
    pc = "Done" =>
        /\ Len(result.rows) = Len(input_rows)
        /\ \A c \in 1..Len(result.rows) :
              result.rows[c] \in channel_outputs(prepared_row(c), reference_params,
                                                 target_lufs, self_target_lufs)

\* a stereo run has returned whose channels differ, in and out
C17_Witness ==
    /\ pc = "Done" /\ Len(result.rows) = 2
    /\ input_rows[1] # input_rows[2]
    /\ result.rows[1] # result.rows[2]
    /\ ~AllZero(input_rows[1]) /\ AllFinite(result.rows[1])

\* C18: master_audio never writes into the caller's input buffer or the
\* caller's reference buffer, and the buffer it returns is neither of them
\* but an array made during the run.
C18_InputNeverAliased ==
    /\ CallerInput \notin refs.written
    /\ CallerReference \notin refs.written
    /\ pc = "Done" => refs.result.kind = "new"

\* a reference-mode run on a mono buffer at the engine's rate has returned:
\* nothing was resampled, so the chain started on the caller's own buffer,
\* and the compression has written into an array
C18_Witness ==
    /\ pc = "Done" /\ in_sr = SAMPLE_RATE /\ in_audio.ndim = 1
    /\ ~IsNone(in_reference) /\ in_reference_sr = SAMPLE_RATE
    /\ refs.written # {}
    /\ ~AllZero(flat(input_rows))

\* the moves of a run: the analysis only with a reference, the setup of
\* lines 352-368 ("Prepare") before the channels, Done only out of the
\* channel processing, and nothing after Done or a failure
PhaseMoves ==
    {<<"Idle", "ReferenceAnalysis">>, <<"Idle", "Prepare">>,
     <<"ReferenceAnalysis", "Prepare">>, <<"ReferenceAnalysis", "Failed">>,
     <<"Prepare", "ChannelProcessing">>, <<"Prepare", "Failed">>,
     <<"ChannelProcessing", "ChannelProcessing">>,
     <<"ChannelProcessing", "Done">>, <<"ChannelProcessing", "Failed">>}

\* the analyses a run with this reference is to make
analyses_due == IF IsNone(in_reference) THEN 0 ELSE 1

\* C19: a run moves through Idle, ReferenceAnalysis (only with a
\* reference), ChannelProcessing and Done in that order and never back;
\* the analyzer runs once when a reference is supplied and not otherwise,
\* and has returned before the first channel stage starts; a stage that
\* fails ends the run, which then never reaches Done nor returns a buffer.
C19_PhasesInOrder ==
    [][/\ <<pc, pc'>> \in PhaseMoves
       /\ (pc = "Idle" /\ pc' = "ReferenceAnalysis") => ~IsNone(in_reference)
       /\ (pc = "Idle" /\ pc' = "Prepare") => IsNone(in_reference)
       /\ analyzer_runs' # analyzer_runs =>
             /\ pc = "ReferenceAnalysis" /\ pc' # "ReferenceAnalysis"
             /\ analyzer_runs = 0 /\ analyzer_runs' = 1
             /\ history = <<>>
       /\ pc' \in {"Prepare", "ChannelProcessing", "Done"} =>
             analyzer_runs' = analyses_due
       /\ history' # history => analyzer_runs = analyses_due
       /\ pc' = "Failed" => (error' # "none" /\ result' = None)
       /\ pc' = "Done" => error' = "none"]_engine_vars

\* a stereo run with a reference has returned after one analysis and
\* eight stage calls
C19_Witness ==
    /\ pc = "Done" /\ analyzer_runs = 1 /\ Len(history) = 8

StageOrder == <<"eq", "compression", "normalize", "limiter">>

\* the channels the loop of a run goes through
channels_due == Len(input_rows)

\* C20: every channel passes the four stages once each in the order EQ,
\* compression, normalize, limiter, one stage after the other and one
\* channel after the other: the stage calls made so far are always the
\* first calls of that sequence, and a finished run has made all of them.
C20_StagesInOrder ==
    /\ \A i \in 1..Len(history) :
          history[i] = <<((i - 1) \div Len(StageOrder)) + 1,
                         StageOrder[((i - 1) % Len(StageOrder)) + 1]>>
    /\ Len(history) <= Len(StageOrder) * channels_due
    /\ pc = "Done" => Len(history) = Len(StageOrder) * channels_due

\* a stereo run has finished its second channel
C20_Witness ==
    /\ pc = "Done" /\ channels_due = 2
    /\ history[8] = <<2, "limiter">>

\* C21: apply_compression returns a buffer as long as its input in which
\* every sample of magnitude at or below the threshold, one equal to the
\* threshold included, is the input sample unchanged.
C21_BelowThresholdUnchanged ==
    fn_call.op = "apply_compression"
    => /\ Len(fn_call.out) = Len(fn_audio)
       /\ \A i \in 1..Len(fn_audio) :
             FLe(FAbs(fn_audio[i]), fn_call.threshold)
             => fn_call.out[i] = fn_audio[i]

\* a buffer with a sample exactly at the threshold and one above it was
\* compressed: the first came back as it was, the second did not
C21_Witness ==
    /\ fn_call.op = "apply_compression"
    /\ fn_audio = <<Fin(300), Fin(-900)>>
    /\ fn_call.threshold = Fin(THRESHOLD_MIN)
    /\ FGt(fn_call.ratio, Fin(Scale))
    /\ fn_call.out[1] = Fin(300)
    /\ fn_call.out[2] # Fin(-900)

\* clamp(0.9 - dynamic_range / 40, 0.3, 0.8) for a finite dynamic range
clamped_threshold(dynamic_range) ==
    LET raw == FSub(Fin(THRESHOLD_BASE), FDiv(dynamic_range, Fin(DR_DIVISOR)))
    IN  IF FLt(raw, Fin(THRESHOLD_MIN)) THEN Fin(THRESHOLD_MIN)
        ELSE IF FGt(raw, Fin(THRESHOLD_MAX)) THEN Fin(THRESHOLD_MAX)
        ELSE raw

\* dynamic ranges to compare a profile's with
DynamicRanges == {Fin(d) : d \in {DR_MIN, 2000, 4000, 12000, 24000, 30000, DR_MAX}}

\* what a call with a profile works with: the profile's ratio and the
\* clamped threshold, which lies in [0.3, 0.8], does not rise with the
\* dynamic range, and is the same whatever the caller passed
ProfileOverrides(call) ==
    /\ call.ratio = call.reference_params.compression_ratio
    /\ call.threshold = clamped_threshold(call.reference_params.dynamic_range)
    /\ Between(Fin(THRESHOLD_MIN), call.threshold, Fin(THRESHOLD_MAX))
    /\ \A d \in DynamicRanges :
          LET other == compression_threshold(call.given_threshold,
                          [call.reference_params EXCEPT !.dynamic_range = d])
          IN  /\ FLe(call.reference_params.dynamic_range, d)
                 => FLe(other, call.threshold)
              /\ FLe(d, call.reference_params.dynamic_range)
                 => FLe(call.threshold, other)
    /\ \A t \in Thresholds, r \in Ratios :
          call.out = apply_compression(fn_audio, t, r, call.reference_params)

\* C22 as stated: with a profile apply_compression ignores the threshold
\* and ratio it is given and works with the profile's ratio and the
\* threshold clamp(0.9 - dynamic_range / 40, 0.3, 0.8); without a profile
\* it works with the threshold 0.7 and the ratio 3.0.
C22_ProfileOrStaticDefaults ==
    fn_call.op = "apply_compression"
    => IF ~IsNone(fn_call.reference_params) THEN ProfileOverrides(fn_call)
       ELSE /\ fn_call.threshold = Fin(COMPRESSION_THRESHOLD)
            /\ fn_call.ratio = Fin(COMPRESSION_RATIO)

\* C22 amended: with a profile as before; without a profile it works with
\* the threshold and ratio the caller passed (0.7 and 3.0 are the defaults
\* of the parameters).
C22_ProfileOrCallerValues ==
    fn_call.op = "apply_compression"
    => IF ~IsNone(fn_call.reference_params) THEN ProfileOverrides(fn_call)
       ELSE /\ fn_call.threshold = fn_call.given_threshold
            /\ fn_call.ratio = fn_call.given_ratio
            /\ fn_call.out = [i \in 1..Len(fn_audio) |->
                                compress_sample(fn_audio[i], fn_call.given_threshold,
                                                fn_call.given_ratio)]

\* a call with a profile of dynamic range 12 dB and ratio 10, given the
\* threshold 0.7 and the ratio 1.5, worked with 0.6 and 10
C22_Witness ==
    /\ fn_call.op = "apply_compression"
    /\ ~IsNone(fn_call.reference_params)
    /\ fn_call.given_threshold = Fin(COMPRESSION_THRESHOLD)
    /\ fn_call.given_ratio = Fin(1500)
    /\ fn_call.threshold = Fin(600)
    /\ fn_call.ratio = Fin(CR_MAX)
    /\ fn_audio = <<Fin(701), Fin(-900)>>
    /\ fn_call.out[1] # fn_audio[1]

\* what C23 says of a returned call whatever the high ratio is: boost and
\* low-pass by the high ratio, the low boost by the low ratio, the gains
\* capped, and the result made by these actions and nothing else
ActionsByRatios(call) ==
    /\ call.high_action = "boost" <=> FGt(call.high_freq_ratio, Fin(HF_RATIO_HIGH))
    /\ call.high_action = "lowpass" <=> FLt(call.high_freq_ratio, Fin(HF_RATIO_LOW))
    /\ call.high_action \in {"boost", "lowpass", "none"}
    /\ call.low_action = "boost" <=> FGt(call.low_freq_ratio, Fin(LF_RATIO_HIGH))
    /\ call.low_action \in {"boost", "none"}
    /\ call.high_action = "boost" =>
          Between(Zero, call.hf_gain, Fin(HF_GAIN_CAP))
    /\ call.low_action = "boost" =>
          Between(Zero, call.lf_gain, Fin(LF_GAIN_CAP))
    /\ call.out = eq_acted(fn_audio, call.high_action, call.hf_gain,
                           call.low_action, call.lf_gain)
    /\ (call.high_action = "none" /\ call.low_action = "none") => call.out = fn_audio

given_row(c) ==
    IF in_sr # SAMPLE_RATE THEN resample_row(in_audio.rows[c], in_sr, SAMPLE_RATE)
    ELSE in_audio.rows[c]

\* the returned buffer has n channels, each made of the same channel of
\* the caller's buffer
MadeOfFirst(n) ==
    /\ Len(result.rows) = n
    /\ \A c \in 1..n :
          result.rows[c] \in channel_outputs(given_row(c), reference_params,
                                             target_lufs, self_target_lufs)

\* C24: a buffer of more than two channels comes back with two channels,
\* made of its first two channels only; a 2-D buffer of a single row comes
\* back 1-D; a 1-D buffer comes back 1-D and a two-channel one with two
\* channels.
C24_TopologyNormalized ==
    pc = "Done" =>
        /\ (in_audio.ndim = 2 /\ Len(in_audio.rows) > 2)
           => (result.ndim = 2 /\ MadeOfFirst(2))
        /\ (in_audio.ndim = 2 /\ Len(in_audio.rows) = 2)
           => (result.ndim = 2 /\ MadeOfFirst(2))
        /\ (in_audio.ndim = 2 /\ Len(in_audio.rows) = 1)
           => (result.ndim = 1 /\ MadeOfFirst(1))
        /\ in_audio.ndim = 1 => (result.ndim = 1 /\ MadeOfFirst(1))

\* a run on a three-channel buffer whose third channel differs from the
\* first two has returned two channels
C24_Witness ==
    /\ pc = "Done"
    /\ in_audio.ndim = 2 /\ Len(in_audio.rows) = 3
    /\ in_audio.rows[3] \notin {in_audio.rows[1], in_audio.rows[2]}
    /\ ~AllZero(in_audio.rows[1]) /\ AllFinite(in_audio.rows[1])
    /\ Len(result.rows) = 2

\* C25: DELETE /cleanup/{session_id} removes only output files of the
\* session it names: whatever session_id a client sends, the mastered file
\* of every other session that existed before the call exists after it
\* (until a cleanup that names that session).
C25_CleanupKeepsOtherSessions ==
    \A i \in 1..Len(cleanups) :
        \A session \in cleanups[i].before :
            cleanups[i].session_id # SessionId(session)
            => \/ \E f \in output_dir : f.path.session = session
               \/ \E j \in (i + 1)..Len(cleanups) :
                     cleanups[j].session_id = SessionId(session)

=============================================================================
